---- MODULE Spec2Model ----
(***************************************************************************)
(* A model of tabpipe/core.py: the table task types built on luigi         *)
(* (DataTable, TableBase, TableTransform, TableFuncApplier, ColumnReplacer,*)
(* TableMerger), the files they read and write, and the engine rule that   *)
(* runs a task only when its output is missing and its dependencies'       *)
(* outputs exist.                                                          *)
(*                                                                         *)
(* Representation.  A string the code takes apart (a path) is a sequence   *)
(* of one-character strings.  A table is [cols, rows]: the header without  *)
(* the row-key column, and the rows in file order, each [idx, cells].      *)
(* Cells and row keys are integers; NaN is the empty cell.  The integer 0  *)
(* that the code puts into a usecols list (the position of the row-key     *)
(* column) is the name IndexCol.  A Python list that is shared and mutated *)
(* (a MergeSpec's colnames) lives in heap, and is referred to by address.  *)
(***************************************************************************)
EXTENDS Integers, Sequences, FiniteSets, TLC

VARIABLES tasks, heap, fs, cur, pc, loc, io, eng

vars == <<tasks, heap, fs, cur, pc, loc, io, eng>>

\* Bounds of the model.
MaxKey == 2
MaxTables == 3
MaxInvocations == 2

None == "None"
Absent == "Absent"
IndexCol == "0"
NaN == -1
NoFile == [nofile |-> TRUE]
NoTable == [cols |-> <<>>, rows |-> <<>>]

Keys == 1..MaxKey

--------------------------------------------------------------------------
(* Sequences and sets.                                                     *)

Range(s) == {s[i] : i \in 1..Len(s)}

Min(S) == CHOOSE x \in S : \A y \in S : x <= y

RECURSIVE SortedSeq(_)
SortedSeq(S) == IF S = {} THEN <<>> ELSE <<Min(S)>> \o SortedSeq(S \ {Min(S)})

\* The elements of s at the positions in P, in order.
AtPositions(s, P) == LET ps == SortedSeq(P) IN [i \in 1..Len(ps) |-> s[ps[i]]]

RECURSIVE Flatten(_)
Flatten(ss) == IF ss = <<>> THEN <<>> ELSE Head(ss) \o Flatten(Tail(ss))

RECURSIVE Concat(_)
Concat(s) == IF s = <<>> THEN "" ELSE Head(s) \o Concat(Tail(s))

NoDuplicates(s) == \A i, j \in 1..Len(s) : i # j => s[i] # s[j]

--------------------------------------------------------------------------
(* os.path and hashlib, as core.py uses them.                              *)

\* str.rfind: the last position of c in s, 0 when there is none.
RFind(s, c) == IF \E i \in 1..Len(s) : s[i] = c
               THEN CHOOSE i \in 1..Len(s) : s[i] = c /\ \A j \in (i+1)..Len(s) : s[j] # c
               ELSE 0

\* os.path.splitext(path)[0]: the extension is what follows the last dot of
\* the last component, unless that component has only dots before it.
SplitextRoot(p) ==
    LET sepIndex == RFind(p, "/")
        dotIndex == RFind(p, ".")
    IN IF dotIndex > sepIndex /\ \E i \in (sepIndex+1)..(dotIndex-1) : p[i] # "."
       THEN SubSeq(p, 1, dotIndex - 1)
       ELSE p

Basename(p) == SubSeq(p, RFind(p, "/") + 1, Len(p))

\* os.path.join(a, b).
Join(a, b) == IF b # <<>> /\ b[1] = "/" THEN b
              ELSE IF a = <<>> \/ a[Len(a)] = "/" THEN a \o b
              ELSE a \o <<"/">> \o b

\* hashlib.sha1(s).hexdigest(): a digest is one opaque symbol, different for
\* different s (SHA-1 is taken to be collision-free).
Sha1Hex(s) == <<"sha1(" \o Concat(s) \o ")">>

--------------------------------------------------------------------------
(* pandas, as core.py uses it.                                             *)

\* The usecols argument of read_csv: None (every column) or a collection.
UseAll == [all |-> TRUE, names |-> {}]
UseCols(S) == [all |-> FALSE, names |-> S]

ReadOk(t) == [ok |-> TRUE, tbl |-> t]
ReadFailed == [ok |-> FALSE, tbl |-> NoTable]

\* The first position of column c in a header.
ColPos(cols, c) == CHOOSE i \in 1..Len(cols) : cols[i] = c /\ \A j \in 1..(i-1) : cols[j] # c

Project(tbl, P) ==
    [cols |-> AtPositions(tbl.cols, P),
     rows |-> [r \in 1..Len(tbl.rows) |->
                  [idx |-> tbl.rows[r].idx, cells |-> AtPositions(tbl.rows[r].cells, P)]]]

\* pd.read_csv(f, index_col=0, usecols=usecols): the named columns in file
\* order, each once, under the row key; a name the file lacks is an error.
\* Every call in core.py puts the row-key column (0) into usecols.
ReadCsv(tbl, usecols) ==
    IF usecols.all THEN ReadOk(tbl)
    ELSE IF \E c \in usecols.names \ {IndexCol} : c \notin Range(tbl.cols) THEN ReadFailed
    ELSE ReadOk(Project(tbl, {i \in 1..Len(tbl.cols) : tbl.cols[i] \in usecols.names}))

\* The join key of a row: its row key, or its cell in column id.
KeyOf(tbl, row, id) == IF id = None THEN row.idx ELSE row.cells[ColPos(tbl.cols, id)]

\* left.merge(right, how=how, left_on=lid, right_on=rid,
\*            left_index=(lid is None), right_index=(rid is None)),
\* for how = 'outer' and how = 'inner'.
\* Rows come out by ascending join key; a key on both sides gives every pair
\* of its rows, a key on one side gives that side's rows with the other
\* side's cells empty.  Columns are the left's then the right's; a name on
\* both sides gets the suffixes _x and _y; joining two columns of the same
\* name keeps one of them.  The row key of the result is the join key when
\* both sides join on the row key, the row key of the side that joins on a
\* column when one does (missing for a row that side lacks), and the row
\* number when both join on a column.  An inner join keeps only the keys
\* that both sides have.
PandasMerge(left, right, how, lid, rid) ==
    IF (lid # None /\ lid \notin Range(left.cols)) \/ (rid # None /\ rid \notin Range(right.cols))
    THEN ReadFailed
    ELSE
    LET sameKey == lid # None /\ lid = rid
        rkeep == {i \in 1..Len(right.cols) : ~(sameKey /\ i = ColPos(right.cols, rid))}
        rkept == AtPositions(right.cols, rkeep)
        overlap == Range(left.cols) \cap Range(rkept)
        lcols == [i \in 1..Len(left.cols) |->
                    IF left.cols[i] \in overlap THEN left.cols[i] \o "_x" ELSE left.cols[i]]
        rcols == [i \in 1..Len(rkept) |->
                    IF rkept[i] \in overlap THEN rkept[i] \o "_y" ELSE rkept[i]]
        lkey(i) == KeyOf(left, left.rows[i], lid)
        rkey(i) == KeyOf(right, right.rows[i], rid)
        lkeys == {lkey(i) : i \in 1..Len(left.rows)}
        rkeys == {rkey(i) : i \in 1..Len(right.rows)}
        keyseq == SortedSeq(IF how = "outer" THEN lkeys \cup rkeys ELSE lkeys \cap rkeys)
        \* The key column that pandas fills from the other side's key.
        lfill == IF lid # None /\ lid \notin overlap THEN ColPos(left.cols, lid) ELSE 0
        rfill == IF lid = None /\ rid # None /\ rid \notin overlap THEN ColPos(rkept, rid) ELSE 0
        rcells(r) == AtPositions(r.cells, rkeep)
        both(l, r) == [idx |-> IF lid = None /\ rid # None THEN r.idx ELSE l.idx,
                       cells |-> l.cells \o rcells(r)]
        leftOnly(l, v) == [idx |-> IF lid = None /\ rid # None THEN NaN ELSE l.idx,
                           cells |-> l.cells \o [i \in 1..Len(rkept) |-> IF i = rfill THEN v ELSE NaN]]
        rightOnly(r, v) == [idx |-> IF lid # None /\ rid = None THEN NaN ELSE r.idx,
                            cells |-> [i \in 1..Len(left.cols) |-> IF i = lfill THEN v ELSE NaN] \o rcells(r)]
        rowsFor(v) ==
            LET L == SortedSeq({i \in 1..Len(left.rows) : lkey(i) = v})
                R == SortedSeq({i \in 1..Len(right.rows) : rkey(i) = v})
            IN IF L # <<>> /\ R # <<>>
               THEN Flatten([a \in 1..Len(L) |->
                               [b \in 1..Len(R) |-> both(left.rows[L[a]], right.rows[R[b]])]])
               ELSE IF R = <<>>
               THEN [a \in 1..Len(L) |-> leftOnly(left.rows[L[a]], v)]
               ELSE [b \in 1..Len(R) |-> rightOnly(right.rows[R[b]], v)]
        joined == Flatten([k \in 1..Len(keyseq) |-> rowsFor(keyseq[k])])
        rows == IF lid # None /\ rid # None
                THEN [i \in 1..Len(joined) |-> [idx |-> i - 1, cells |-> joined[i].cells]]
                ELSE joined
    IN ReadOk([cols |-> lcols \o rcols, rows |-> rows])

\* The merge of TableMerger.run:
\* left.merge(right, how='outer', left_on=lid, right_on=rid,
\*            left_index=lidx, right_index=ridx)
MergeInner(left, right, lid, rid) == PandasMerge(left, right, "inner", lid, rid)
Merge(left, right, lid, rid) == PandasMerge(left, right, "outer", lid, rid)

\* df[colname] = col[colname].values, which pairs the rows by position.
AssignColumnByPosition(df, colname, col) ==
    LET cpos == ColPos(col.cols, colname)
        value(r) == IF r <= Len(col.rows) THEN col.rows[r].cells[cpos] ELSE NaN
    IN IF colname \in Range(df.cols)
       THEN [cols |-> df.cols,
             rows |-> [r \in 1..Len(df.rows) |->
                         [idx |-> df.rows[r].idx,
                          cells |-> [df.rows[r].cells EXCEPT ![ColPos(df.cols, colname)] = value(r)]]]]
       ELSE [cols |-> Append(df.cols, colname),
             rows |-> [r \in 1..Len(df.rows) |->
                         [idx |-> df.rows[r].idx, cells |-> Append(df.rows[r].cells, value(r))]]]

\* df[colname] = col[colname]: the column takes, at each row key of df, the
\* value col has at that key, and is empty where col has none; a column df
\* lacks is added after the others.
AssignColumn(df, colname, col) ==
    LET cpos == ColPos(col.cols, colname)
        value(k) == IF \E r \in 1..Len(col.rows) : col.rows[r].idx = k
                    THEN col.rows[CHOOSE r \in 1..Len(col.rows) : col.rows[r].idx = k].cells[cpos]
                    ELSE NaN
    IN IF colname \in Range(df.cols)
       THEN [cols |-> df.cols,
             rows |-> [r \in 1..Len(df.rows) |->
                         [idx |-> df.rows[r].idx,
                          cells |-> [df.rows[r].cells EXCEPT ![ColPos(df.cols, colname)] = value(df.rows[r].idx)]]]]
       ELSE [cols |-> Append(df.cols, colname),
             rows |-> [r \in 1..Len(df.rows) |->
                         [idx |-> df.rows[r].idx,
                          cells |-> Append(df.rows[r].cells, value(df.rows[r].idx))]]]

--------------------------------------------------------------------------
(* The task types.                                                         *)

\* A task parameter that holds one task, or a collection of tasks.
Single(t) == [multi |-> FALSE, items |-> <<t>>]
Several(ts) == [multi |-> TRUE, items |-> ts]

\* A colnames parameter: one name, or a collection of names.
OneName(c) == [multi |-> FALSE, names |-> <<c>>]
ManyNames(cs) == [multi |-> TRUE, names |-> cs]

\* An outname of <<>> is an outname that was not supplied (None, or '').
DataTable(fname) == [kind |-> "DataTable", fname |-> fname]
TableFuncApplier(table, colnames, savedir, outname, func) ==
    [kind |-> "TableFuncApplier", table |-> table, colnames |-> colnames,
     savedir |-> savedir, outname |-> outname, func |-> func]
ColumnReplacer(table, replacement, colnames, savedir, outname) ==
    [kind |-> "ColumnReplacer", table |-> Single(table), replacement |-> replacement,
     colnames |-> colnames, savedir |-> savedir, outname |-> outname]
TableMerger(tables, savedir, outname) ==
    [kind |-> "TableMerger", tables |-> tables, savedir |-> savedir, outname |-> outname]

\* One entry of TableMerger.tables: colnames is the address of a list in
\* heap (0: no colnames), id a column name, None, or Absent (no 'id' key).
MergeSpec(table, colnames, id) == [table |-> table, colnames |-> colnames, id |-> id]

TaskIds == DOMAIN tasks

\* What an expression that raises stands for, where a path is expected.
ErrPath == <<"!">>

\* self.table: a DataTable is its own table, a TableTransform has the task
\* it was given, a MultipleTableTransform has no such attribute.
HasTable(t) == tasks[t].kind # "TableMerger"
TableOf(t) == IF tasks[t].kind = "DataTable" THEN Single(t) ELSE tasks[t].table

RECURSIVE OutputPath(_), Tname(_), Thash(_)

\* TableMixin.tname: the output path of self.table, without its directory
\* and extension.  It raises when self has no table, or a list for one.
Tname(t) ==
    IF ~HasTable(t) \/ TableOf(t).multi THEN ErrPath
    ELSE LET path == OutputPath(TableOf(t).items[1])
         IN IF path = ErrPath THEN ErrPath ELSE Basename(SplitextRoot(path))

Thash(t) == IF Tname(t) = ErrPath THEN ErrPath ELSE Sha1Hex(Tname(t))

\* output().path of DataTable, TableBase and ColumnReplacer.
OutputPath(t) ==
    LET task == tasks[t]
    IN IF task.kind = "DataTable" THEN task.fname
       ELSE IF task.kind = "ColumnReplacer" /\ task.outname = <<>>
       THEN IF Thash(task.table.items[1]) = ErrPath \/ Thash(task.replacement) = ErrPath
            THEN ErrPath
            ELSE Join(task.savedir, Sha1Hex(Thash(task.table.items[1]) \o Thash(task.replacement)))
       ELSE Join(task.savedir, task.outname)

\* requires(), as the set of tasks it names.
Requires(t) ==
    LET task == tasks[t]
    IN CASE task.kind = "DataTable" -> {}
         [] task.kind = "TableFuncApplier" -> Range(task.table.items)
         [] task.kind = "ColumnReplacer" -> {task.table.items[1], task.replacement}
         [] task.kind = "TableMerger" -> {task.tables[i].table : i \in 1..Len(task.tables)}

--------------------------------------------------------------------------
(* The engine, and what a run shares.                                      *)

\* The locals of a run or of a method call: op is the method called from
\* outside run, result what a property returned, args what func was given.
LocInit == [tables |-> <<>>, tnum |-> 2, merged |-> NoTable, df |-> NoTable,
            col |-> NoTable, op |-> "", result |-> <<>>, args |-> <<>>, err |-> ""]
\* What a run has done to files: the files it read, each with the usecols it
\* read it with, and the paths it opened for writing.
IoInit == [reads |-> <<>>, opened |-> {}]
Reading(path, usecols) == [path |-> path, usecols |-> usecols]

Exists(path) == fs[path] # NoFile

\* The engine starts run() of a task whose output is missing and whose
\* dependencies' outputs all exist; an ExternalTask has no run().
Runnable(t) ==
    /\ tasks[t].kind # "DataTable"
    /\ OutputPath(t) # ErrPath
    /\ ~Exists(OutputPath(t))
    /\ \A d \in Requires(t) : OutputPath(d) # ErrPath /\ Exists(OutputPath(d))

\* and runs a task at most once in an invocation of the pipeline.
Start(t) ==
    /\ pc \in {"idle", "done", "failed"}
    /\ t \notin eng.attempted
    /\ Runnable(t)
    /\ cur' = t
    /\ pc' = "run"
    /\ loc' = LocInit
    /\ io' = IoInit
    /\ eng' = [eng EXCEPT !.attempted = @ \cup {t}]
    /\ UNCHANGED <<tasks, heap, fs>>

\* The pipeline is invoked again, once nothing is left to run in this
\* invocation.
NewInvocation ==
    /\ pc \in {"done", "failed"}
    /\ eng.inv < eng.limit
    /\ \A t \in TaskIds : ~(t \notin eng.attempted /\ Runnable(t))
    /\ eng' = [eng EXCEPT !.inv = @ + 1,
                          !.attempted = {},
                          !.failedBefore = {t \in eng.attempted : ~Exists(OutputPath(t))},
                          !.existedAtStart = {t \in TaskIds : OutputPath(t) # ErrPath /\ Exists(OutputPath(t))}]
    /\ UNCHANGED <<tasks, heap, fs, cur, pc, loc, io>>

\* An exception leaves run(): nothing of the run is kept but its effects.
Raise(err) ==
    /\ pc' = "failed"
    /\ loc' = [loc EXCEPT !.err = err]

\* A Target persists until it is deleted from outside the pipeline.
ExternalDelete(t) ==
    /\ pc \in {"idle", "done", "failed"}
    /\ tasks[t].kind # "DataTable"
    /\ OutputPath(t) # ErrPath
    /\ Exists(OutputPath(t))
    /\ fs' = [fs EXCEPT ![OutputPath(t)] = NoFile]
    /\ UNCHANGED <<tasks, heap, cur, pc, loc, io, eng>>

--------------------------------------------------------------------------
(* TableMerger.                                                            *)

\* if len(self.tables) <= 1: raise ValueError
TooFewTablesOffByOne(n) == n < 1
TooFewTables(n) == n <= 1

\* The statements of TableMerger.run, in order.
MergerAfter(step) ==
    CASE step = "run" -> "m_defaults"
      [] step = "m_defaults" -> "m_read"
      [] step = "m_read" -> "m_fold"
      [] step = "m_fold" -> "m_open"
      [] step = "m_open" -> "m_write"
      [] step = "m_write" -> "done"

\* read_table: what colnames holds after the append and the insert.
ReadTableColnames(colnames, id) ==
    <<IndexCol>> \o (IF id # None THEN Append(colnames, id) ELSE colnames)

\* read_table: usecols = list(set(colnames)), or None without colnames.
ReadTableUsecols(colnames, id) ==
    IF colnames # <<>> THEN UseCols(Range(ReadTableColnames(colnames, id))) ELSE UseAll

IsMerger == cur # 0 /\ tasks[cur].kind = "TableMerger"

MergeCheck ==
    /\ IsMerger /\ pc = "run"
    /\ IF TooFewTables(Len(tasks[cur].tables))
       THEN Raise("ValueError")
       ELSE pc' = MergerAfter("run") /\ loc' = loc
    /\ UNCHANGED <<tasks, heap, fs, cur, io, eng>>

\* for spec in self.tables: spec['id'] = None if not 'id' in spec else spec['id']
MergeDefaults ==
    /\ IsMerger /\ pc = "m_defaults"
    /\ tasks' = [tasks EXCEPT ![cur].tables =
                    [i \in 1..Len(@) |-> [@[i] EXCEPT !.id = IF @ = Absent THEN None ELSE @]]]
    /\ pc' = MergerAfter("m_defaults")
    /\ UNCHANGED <<heap, fs, cur, loc, io, eng>>

\* One element of the list comprehension, read_table(**spec), or its end.
MergeRead ==
    /\ IsMerger /\ pc = "m_read"
    /\ IF Len(loc.tables) = Len(tasks[cur].tables)
       THEN pc' = MergerAfter("m_read") /\ UNCHANGED <<heap, loc, io>>
       ELSE
       LET spec == tasks[cur].tables[Len(loc.tables) + 1]
           path == OutputPath(spec.table)
           colnames == IF spec.colnames = 0 THEN <<>> ELSE heap[spec.colnames]
           read == ReadCsv(fs[path], ReadTableUsecols(colnames, spec.id))
       IN IF ~Exists(path)
          THEN Raise("IOError") /\ UNCHANGED <<heap, io>>
          ELSE /\ heap' = IF colnames # <<>>
                          THEN [heap EXCEPT ![spec.colnames] = ReadTableColnames(colnames, spec.id)]
                          ELSE heap
               /\ io' = [io EXCEPT !.reads = Append(@, Reading(path, ReadTableUsecols(colnames, spec.id)))]
               /\ IF ~read.ok
                  THEN Raise("ValueError")
                  ELSE /\ loc' = [loc EXCEPT !.tables = Append(@, [tbl |-> read.tbl, id |-> spec.id])]
                       /\ pc' = pc
    /\ UNCHANGED <<tasks, fs, cur, eng>>

\* One round of the loop, tables[tnum] = (left.merge(right, ...), rid), or
\* its end.
MergeFold ==
    /\ IsMerger /\ pc = "m_fold"
    /\ IF loc.tnum > Len(loc.tables)
       THEN pc' = MergerAfter("m_fold") /\ loc' = loc
       ELSE
       LET tnum == loc.tnum
           left == loc.tables[tnum - 1]
           right == loc.tables[tnum]
           m == Merge(left.tbl, right.tbl, left.id, right.id)
       IN IF ~m.ok
          THEN Raise("KeyError")
          ELSE /\ loc' = [loc EXCEPT !.merged = m.tbl,
                                     !.tables[tnum] = [tbl |-> m.tbl, id |-> right.id],
                                     !.tnum = tnum + 1]
               /\ pc' = pc
    /\ UNCHANGED <<tasks, heap, fs, cur, io, eng>>

\* with self.output().open('w') as f
MergeOpen ==
    /\ IsMerger /\ pc = "m_open"
    /\ io' = [io EXCEPT !.opened = @ \cup {OutputPath(cur)}]
    /\ pc' = MergerAfter("m_open")
    /\ UNCHANGED <<tasks, heap, fs, cur, loc, eng>>

\* merged.to_csv(f, index=True), and the close that puts the file in place;
\* merged is unbound when the loop never ran.
MergeWrite ==
    /\ IsMerger /\ pc = "m_write"
    /\ IF Len(loc.tables) < 2
       THEN Raise("UnboundLocalError") /\ fs' = fs
       ELSE /\ fs' = [fs EXCEPT ![OutputPath(cur)] = loc.merged]
            /\ pc' = MergerAfter("m_write")
            /\ loc' = loc
    /\ UNCHANGED <<tasks, heap, cur, io, eng>>

MergerRun == MergeCheck \/ MergeDefaults \/ MergeRead \/ MergeFold \/ MergeOpen \/ MergeWrite

--------------------------------------------------------------------------
(* TableBase.                                                              *)

\* multiple_columns: hasattr(self.colnames, '__iter__'); a str has none.
MultipleColumns(colnames) == colnames.multi

\* cols: list(self.colnames) if self.multiple_columns else [self.colnames]
Cols(colnames) == colnames.names

\* usecols without the row-key column.
UsecolsListNoIndex(colnames) == Cols(colnames)

\* usecols: [0] + self.cols
UsecolsList(colnames) == <<IndexCol>> \o Cols(colnames)

\* colname: self.colnames[0] if self.multiple_columns else self.colnames
Colname(colnames) == colnames.names[1]

\* self.usecols as read_csv gets it; ColumnReplacer sets it to None.
Usecols(t) == IF tasks[t].kind = "ColumnReplacer" THEN UseAll
              ELSE UseCols(Range(UsecolsList(tasks[t].colnames)))

\* self.input(): the Targets of requires(), in the shape requires() has:
\* one Target, a list of them, or a dict of them.
Input(t) ==
    LET task == tasks[t]
    IN IF task.kind = "ColumnReplacer"
       THEN [shape |-> "dict", keys |-> <<"table", "replacement">>,
             targets |-> <<OutputPath(task.table.items[1]), OutputPath(task.replacement)>>]
       ELSE [shape |-> IF task.table.multi THEN "list" ELSE "single", keys |-> <<>>,
             targets |-> [i \in 1..Len(task.table.items) |-> OutputPath(task.table.items[i])]]

\* Infile with input[-1] for input[0].
InfileLast(input) ==
    IF input.shape = "dict"
    THEN input.targets[CHOOSE i \in 1..Len(input.keys) : input.keys[i] = "table"]
    ELSE input.targets[Len(input.targets)]

\* The Target read_input_table opens: input['table'] of a dict, input[0] of
\* a list, the input itself otherwise.
Infile(input) ==
    IF input.shape = "dict"
    THEN input.targets[CHOOSE i \in 1..Len(input.keys) : input.keys[i] = "table"]
    ELSE input.targets[1]

\* read_input_table: the outcome, the file it read and the usecols it used.
ReadInputTable(t) ==
    LET input == Input(t)
    IN IF input.shape = "dict" /\ "table" \notin Range(input.keys)
       THEN [ok |-> FALSE, err |-> "KeyError", reads |-> <<>>, tbl |-> NoTable]
       ELSE IF input.shape = "list" /\ input.targets = <<>>
       THEN [ok |-> FALSE, err |-> "IndexError", reads |-> <<>>, tbl |-> NoTable]
       ELSE IF ~Exists(Infile(input))
       THEN [ok |-> FALSE, err |-> "IOError", reads |-> <<>>, tbl |-> NoTable]
       ELSE LET read == ReadCsv(fs[Infile(input)], Usecols(t))
            IN [ok |-> read.ok, err |-> IF read.ok THEN "" ELSE "ValueError",
                reads |-> <<Reading(Infile(input), Usecols(t))>>, tbl |-> read.tbl]

\* A call of the usecols property.
CallUsecols(t) ==
    /\ pc = "idle"
    /\ tasks[t].kind = "TableFuncApplier"
    /\ cur' = t
    /\ pc' = "returned"
    /\ loc' = [LocInit EXCEPT !.op = "usecols", !.result = UsecolsList(tasks[t].colnames)]
    /\ UNCHANGED <<tasks, heap, fs, io, eng>>

\* A call of read_input_table().
CallReadInputTable(t) ==
    /\ pc = "idle"
    /\ tasks[t].kind \in {"TableFuncApplier", "ColumnReplacer"}
    /\ cur' = t
    /\ LET read == ReadInputTable(t)
       IN /\ io' = [IoInit EXCEPT !.reads = read.reads]
          /\ pc' = IF read.ok THEN "returned" ELSE "failed"
          /\ loc' = [LocInit EXCEPT !.op = "read_input_table", !.df = read.tbl, !.err = read.err]
    /\ UNCHANGED <<tasks, heap, fs, eng>>

--------------------------------------------------------------------------
(* TableFuncApplier.                                                       *)

\* The functions of the model: one changes nothing, one empties the column.
Funcs == {"noop", "clear"}
CallFunc(func, table, colname) ==
    IF func = "noop" THEN table
    ELSE [cols |-> table.cols,
          rows |-> [r \in 1..Len(table.rows) |->
                      [idx |-> table.rows[r].idx,
                       cells |-> [table.rows[r].cells EXCEPT ![ColPos(table.cols, colname)] = NaN]]]]

\* What apply_func passes after (table, colname): nothing for one column,
\* the one other name, or the list of the other names.
OtherColsArg(colnames) ==
    IF ~MultipleColumns(colnames) THEN <<>>
    ELSE IF Len(Cols(colnames)) - 1 = 1 THEN <<OneName(Cols(colnames)[2])>>
    ELSE <<ManyNames(Tail(Cols(colnames)))>>

\* A call of apply_func(table) on the table read_input_table returned.
CallApplyFunc ==
    /\ pc = "returned" /\ loc.op = "read_input_table"
    /\ tasks[cur].kind = "TableFuncApplier"
    /\ pc' = "applied"
    /\ loc' = [loc EXCEPT !.op = "apply_func",
                          !.args = OtherColsArg(tasks[cur].colnames),
                          !.df = CallFunc(tasks[cur].func, loc.df, Colname(tasks[cur].colnames))]
    /\ UNCHANGED <<tasks, heap, fs, cur, io, eng>>

IsFuncApplier == cur # 0 /\ tasks[cur].kind = "TableFuncApplier"

\* run = NotImplemented: TableFuncApplier inherits it, and calling it raises.
RunNotImplemented ==
    /\ IsFuncApplier /\ pc = "run"
    /\ Raise("TypeError")
    /\ UNCHANGED <<tasks, heap, fs, cur, io, eng>>

--------------------------------------------------------------------------
(* ColumnReplacer.                                                         *)

\* ColumnReplacer.run with the output opened before the inputs are read.
ReplacerOpensFirst(step) ==
    CASE step = "run" -> "r_open"
      [] step = "r_open" -> "r_read"
      [] step = "r_read" -> "r_replacement"
      [] step = "r_replacement" -> "r_assign"
      [] step = "r_assign" -> "r_write"
      [] step = "r_write" -> "done"

\* The statements of ColumnReplacer.run, in order.
ReplacerAfter(step) ==
    CASE step = "run" -> "r_read"
      [] step = "r_read" -> "r_replacement"
      [] step = "r_replacement" -> "r_assign"
      [] step = "r_assign" -> "r_open"
      [] step = "r_open" -> "r_write"
      [] step = "r_write" -> "done"

IsReplacer == cur # 0 /\ tasks[cur].kind = "ColumnReplacer"

\* inputs = self.input()
ReplaceInputs ==
    /\ IsReplacer /\ pc = "run"
    /\ pc' = ReplacerAfter("run")
    /\ UNCHANGED <<tasks, heap, fs, cur, loc, io, eng>>

\* df = self.read_input_table()
ReplaceRead ==
    /\ IsReplacer /\ pc = "r_read"
    /\ LET read == ReadInputTable(cur)
       IN /\ io' = [io EXCEPT !.reads = @ \o read.reads]
          /\ IF ~read.ok
             THEN Raise(read.err)
             ELSE loc' = [loc EXCEPT !.df = read.tbl] /\ pc' = ReplacerAfter("r_read")
    /\ UNCHANGED <<tasks, heap, fs, cur, eng>>

\* with inputs['replacement'].open() as f:
\*     col = pd.read_csv(f, index_col=0, usecols=(0, self.colname))
ReplaceReadReplacement ==
    /\ IsReplacer /\ pc = "r_replacement"
    /\ LET path == OutputPath(tasks[cur].replacement)
           usecols == UseCols({IndexCol, Colname(tasks[cur].colnames)})
           read == ReadCsv(fs[path], usecols)
       IN IF ~Exists(path)
          THEN Raise("IOError") /\ io' = io
          ELSE /\ io' = [io EXCEPT !.reads = Append(@, Reading(path, usecols))]
               /\ IF ~read.ok
                  THEN Raise("ValueError")
                  ELSE loc' = [loc EXCEPT !.col = read.tbl] /\ pc' = ReplacerAfter("r_replacement")
    /\ UNCHANGED <<tasks, heap, fs, cur, eng>>

\* df[self.colname] = col[self.colname]
ReplaceAssign ==
    /\ IsReplacer /\ pc = "r_assign"
    /\ loc' = [loc EXCEPT !.df = AssignColumn(loc.df, Colname(tasks[cur].colnames), loc.col)]
    /\ pc' = ReplacerAfter("r_assign")
    /\ UNCHANGED <<tasks, heap, fs, cur, io, eng>>

\* with self.output().open('w') as f
ReplaceOpen ==
    /\ IsReplacer /\ pc = "r_open"
    /\ io' = [io EXCEPT !.opened = @ \cup {OutputPath(cur)}]
    /\ pc' = ReplacerAfter("r_open")
    /\ UNCHANGED <<tasks, heap, fs, cur, loc, eng>>

\* df.to_csv(f, index=True), and the close that puts the file in place.
ReplaceWrite ==
    /\ IsReplacer /\ pc = "r_write"
    /\ fs' = [fs EXCEPT ![OutputPath(cur)] = loc.df]
    /\ pc' = ReplacerAfter("r_write")
    /\ UNCHANGED <<tasks, heap, cur, loc, io, eng>>

ReplacerRun == ReplaceInputs \/ ReplaceRead \/ ReplaceReadReplacement \/ ReplaceAssign
                  \/ ReplaceOpen \/ ReplaceWrite

--------------------------------------------------------------------------
(* The source tables of the model.                                         *)

Chr(k) == <<"1", "2", "3", "4", "5", "6">>[k]
SrcPath(k) == <<"s", Chr(k)>>

\* Column b holds small numbers, so that it can serve as a join key.
SrcCols(k) == IF k % 2 = 1 THEN <<"a", "b">> ELSE <<"b", "c">>
SrcCell(k, key, c) == IF c = "b" THEN ((key + k) % MaxKey) + 1
                      ELSE IF c = "a" THEN 10 * k + key ELSE 100 + 10 * k + key
SrcTable(k, keys) ==
    LET ks == SortedSeq(keys)
    IN [cols |-> SrcCols(k),
        rows |-> [r \in 1..Len(ks) |->
                    [idx |-> ks[r],
                     cells |-> [j \in 1..Len(SrcCols(k)) |-> SrcCell(k, ks[r], SrcCols(k)[j])]]]]

\* A source file rewritten from outside the pipeline, with every column.
FixedCols == <<"a", "b", "c">>
FixedTable(k, keys) ==
    LET ks == SortedSeq(keys)
    IN [cols |-> FixedCols,
        rows |-> [r \in 1..Len(ks) |->
                    [idx |-> ks[r],
                     cells |-> [j \in 1..Len(FixedCols) |-> SrcCell(k, ks[r], FixedCols[j])]]]]

\* After a failure, the file of source k is put right, once.
ExternalFix(k) ==
    /\ pc = "failed"
    /\ ~eng.fixed
    /\ tasks[k].kind = "DataTable"
    /\ Exists(SrcPath(k))
    /\ fs' = [fs EXCEPT ![SrcPath(k)] = FixedTable(k, {fs[SrcPath(k)].rows[r].idx : r \in 1..Len(fs[SrcPath(k)].rows)})]
    /\ eng' = [eng EXCEPT !.fixed = TRUE]
    /\ UNCHANGED <<tasks, heap, cur, pc, loc, io>>

Files(sources, keysOf) ==
    [p \in {OutputPath(t) : t \in TaskIds} \ {ErrPath} |->
        IF \E k \in sources : p = SrcPath(k)
        THEN SrcTable(CHOOSE k \in sources : p = SrcPath(k), keysOf[CHOOSE k \in sources : p = SrcPath(k)])
        ELSE NoFile]

\* The first invocation of the pipeline, of at most limit invocations.
\* attempted: the tasks run in this invocation; failedBefore: those of the
\* invocation before that left no output; existedAtStart: the tasks whose
\* output existed when this invocation began (kept from the second on).
EngInit(limit) == [inv |-> 1, limit |-> limit, attempted |-> {}, failedBefore |-> {},
                   existedAtStart |-> {}, fixed |-> FALSE]

--------------------------------------------------------------------------
(* A TableMerger over n source tables.                                     *)

MergerOut == <<"m">>

\* The colnames lists that MergeSpec entries refer to.
HeapInit == <<<<"b">>, <<"a", "b">>>>

\* One run of a TableMerger whose entries all join on the row key; each of
\* the first two entries reads every column, or the columns of the first
\* list, and the later entries read every column.
InitMerge ==
    \E n \in 0..MaxTables :
    \E keysOf \in [1..n -> SUBSET Keys] :
    \E cn \in {f \in [1..n -> 0..1] : \A k \in 3..n : f[k] = 0} :
        /\ tasks = [i \in 1..(n+1) |->
                      IF i <= n THEN DataTable(SrcPath(i))
                      ELSE TableMerger([k \in 1..n |-> MergeSpec(k, cn[k], Absent)], <<>>, MergerOut)]
        /\ heap = HeapInit
        /\ fs = [p \in {SrcPath(k) : k \in 1..n} \cup {MergerOut} |->
                    IF p = MergerOut THEN NoFile
                    ELSE LET k == CHOOSE k \in 1..n : p = SrcPath(k) IN SrcTable(k, keysOf[k])]
        /\ cur = 0
        /\ pc = "idle"
        /\ loc = LocInit
        /\ io = IoInit
        /\ eng = EngInit(1)

NextMerge == (\E t \in TaskIds : Start(t)) \/ MergerRun

SpecMerge == InitMerge /\ [][NextMerge]_vars

--------------------------------------------------------------------------
(* The methods of a TableFuncApplier and of a ColumnReplacer, called on    *)
(* their own, and their runs.                                              *)

MaxCols == 2
Names == {"a", "b"}
TableColnames ==
    {OneName(c) : c \in Names}
       \cup {ManyNames(cs) : cs \in UNION {[1..n -> Names] : n \in 1..MaxCols}}

\* Task 3 applies a function to what its table parameter names: source 1,
\* source 2, or a list of them; task 4 replaces a column of source 1 by
\* that of source 2.
InitTable ==
    \E colnames \in TableColnames :
    \E table \in {Single(1), Single(2), Several(<<1>>), Several(<<1, 2>>), Several(<<2, 1>>)} :
    \E func \in Funcs :
        /\ tasks = <<DataTable(SrcPath(1)), DataTable(SrcPath(2)),
                     TableFuncApplier(table, colnames, <<>>, <<"f">>, func),
                     ColumnReplacer(1, 2, colnames, <<>>, <<"r">>)>>
        /\ heap = <<>>
        /\ fs = Files(1..2, [k \in 1..2 |-> Keys])
        /\ cur = 0
        /\ pc = "idle"
        /\ loc = LocInit
        /\ io = IoInit
        /\ eng = EngInit(1)

NextTable ==
    \/ \E t \in TaskIds : CallUsecols(t)
    \/ \E t \in TaskIds : CallReadInputTable(t)
    \/ CallApplyFunc
    \/ \E t \in TaskIds : Start(t)
    \/ RunNotImplemented
    \/ ReplacerRun

SpecTable == InitTable /\ [][NextTable]_vars

Returned(op) == pc = "returned" /\ loc.op = op

\* C6 as amended: usecols is the row-key column followed by the names of
\* colnames in their order, each as often as colnames holds it: so it has
\* the row-key column and every name, and has no element twice exactly when
\* colnames repeats no name.
C6_UsecolsKeyAndNames ==
    Returned("usecols") =>
        LET names == tasks[cur].colnames.names
        IN /\ loc.result[1] = IndexCol
           /\ Range(loc.result) = {IndexCol} \cup Range(names)
           /\ \A c \in Range(names) :
                 Cardinality({i \in 1..Len(loc.result) : loc.result[i] = c})
                    = Cardinality({i \in 1..Len(names) : names[i] = c})
           /\ NoDuplicates(loc.result) <=> NoDuplicates(names)

\* usecols was computed for a collection that repeats a name.
C6_Witness ==
    /\ Returned("usecols")
    /\ tasks[cur].colnames.multi
    /\ ~NoDuplicates(tasks[cur].colnames.names)

\* C6 as stated: usecols has the row-key column, every name of colnames, and
\* no element twice.
C6_UsecolsNoDuplicates ==
    Returned("usecols") =>
        /\ IndexCol \in Range(loc.result)
        /\ Range(tasks[cur].colnames.names) \subseteq Range(loc.result)
        /\ NoDuplicates(loc.result)

\* The call of read_input_table is over, by return or by exception.
ReadInputTableOver == cur # 0 /\ loc.op = "read_input_table" /\ pc \in {"returned", "failed"}

\* C8 as amended: read_input_table raises no configuration error over the
\* number of upstream Targets: of a dict it reads the Target under 'table',
\* of a list the first Target, and it opens no other.
C8_ReadsTableOrFirst ==
    (ReadInputTableOver /\ Len(Input(cur).targets) > 1) =>
        /\ loc.err \in {"", "ValueError"}
        /\ Len(io.reads) = 1
        /\ io.reads[1].path = Input(cur).targets[1]
        /\ pc = "returned" => loc.df = ReadCsv(fs[Input(cur).targets[1]], Usecols(cur)).tbl

\* read_input_table returned a table for an input that is a list of two
\* different Targets.
C8_Witness ==
    /\ ReadInputTableOver /\ pc = "returned"
    /\ Input(cur).shape = "list" /\ Len(Input(cur).targets) = 2
    /\ Input(cur).targets[1] # Input(cur).targets[2]

\* C8 as stated: with more than one upstream Target, read_input_table fails
\* and reads nothing.
C8_FailsOnSeveralTargets ==
    (ReadInputTableOver /\ Len(Input(cur).targets) > 1) =>
        pc = "failed" /\ io.reads = <<>>

\* The run of a TableFuncApplier is over, by return or by exception.
ApplierRunOver == IsFuncApplier /\ loc.op = "" /\ pc \in {"done", "failed"}

\* C7: a run of a TableFuncApplier over one table that has the columns of
\* interest writes, to the task's output, the table read with usecols and
\* passed through func; with a function that changes nothing, the upstream
\* table restricted to the row key and those columns.
C7_ApplierWritesTable ==
    LET upstream == fs[OutputPath(tasks[cur].table.items[1])]
    IN (ApplierRunOver /\ ~tasks[cur].table.multi
            /\ Range(Cols(tasks[cur].colnames)) \subseteq Range(upstream.cols)) =>
        /\ pc = "done"
        /\ Exists(OutputPath(cur))
        /\ fs[OutputPath(cur)] = CallFunc(tasks[cur].func, ReadCsv(upstream, Usecols(cur)).tbl,
                                          Colname(tasks[cur].colnames))

--------------------------------------------------------------------------
(* tname, thash and output(), called on tasks of every kind.               *)

MaxPathLen == 3
PathChars == {"a", "b", ".", "/"}
Paths == UNION {[1..n -> PathChars] : n \in 1..MaxPathLen}

\* A call of the tname property.
CallTname(t) ==
    /\ pc = "idle"
    /\ cur' = t
    /\ pc' = IF Tname(t) = ErrPath THEN "failed" ELSE "returned"
    /\ loc' = [LocInit EXCEPT !.op = "tname",
                              !.result = IF Tname(t) = ErrPath THEN <<>> ELSE <<Tname(t)>>,
                              !.err = IF Tname(t) = ErrPath THEN "AttributeError" ELSE ""]
    /\ UNCHANGED <<tasks, heap, fs, io, eng>>

\* A call of the thash property.
CallThash(t) ==
    /\ pc = "idle"
    /\ cur' = t
    /\ pc' = IF Thash(t) = ErrPath THEN "failed" ELSE "returned"
    /\ loc' = [LocInit EXCEPT !.op = "thash",
                              !.result = IF Thash(t) = ErrPath THEN <<>> ELSE <<Thash(t)>>,
                              !.err = IF Thash(t) = ErrPath THEN "AttributeError" ELSE ""]
    /\ UNCHANGED <<tasks, heap, fs, io, eng>>

\* A call of output() on a ColumnReplacer, the first or the second of two
\* calls on different instances; result holds the paths returned so far.
CallOutput(t) ==
    /\ \/ pc = "idle" /\ loc.result = <<>>
       \/ pc = "returned" /\ loc.op = "output" /\ Len(loc.result) = 1 /\ cur < t
    /\ tasks[t].kind = "ColumnReplacer"
    /\ cur' = t
    /\ pc' = IF OutputPath(t) = ErrPath THEN "failed" ELSE "returned"
    /\ loc' = [loc EXCEPT !.op = "output",
                          !.args = Append(@, t),
                          !.result = IF OutputPath(t) = ErrPath THEN @ ELSE Append(@, OutputPath(t)),
                          !.err = IF OutputPath(t) = ErrPath THEN "AttributeError" ELSE ""]
    /\ UNCHANGED <<tasks, heap, fs, io, eng>>

\* Two sources, a function applier over the first, a merger of the two, and
\* two column replacers without an outname: one over the two sources, one
\* over any two of the four tasks before it.
InitNames ==
    \E fname \in Paths :
    \E outname \in {<<"a">>, <<"c">>, <<"c", ".", "a">>} :
    \E table, replacement \in 1..4 :
        /\ tasks = <<DataTable(fname), DataTable(<<"b">>),
                     TableFuncApplier(Single(1), OneName("a"), <<"d">>, outname, "noop"),
                     TableMerger(<<MergeSpec(1, 0, Absent), MergeSpec(2, 0, Absent)>>, <<"d">>, <<"m">>),
                     ColumnReplacer(1, 2, OneName("a"), <<"d">>, <<>>),
                     ColumnReplacer(table, replacement, OneName("a"), <<"d">>, <<>>)>>
        /\ heap = <<>>
        \* The name properties open no file: none need exist.
        /\ fs = [p \in {fname, <<"b">>} |-> NoFile]
        /\ cur = 0
        /\ pc = "idle"
        /\ loc = LocInit
        /\ io = IoInit
        /\ eng = EngInit(1)

NextNames ==
    \/ \E t \in TaskIds : CallTname(t)
    \/ \E t \in TaskIds : CallThash(t)
    \/ \E t \in TaskIds : CallOutput(t)

SpecNames == InitNames /\ [][NextNames]_vars

\* The display name as the specification states it: the path of a task's own output Target,
\* without its directory and its final extension.
DisplayName(t) == Basename(SplitextRoot(OutputPath(t)))

\* The call of op is over, by return or by exception.
CallOver(op) == cur # 0 /\ loc.op = op /\ pc \in {"returned", "failed"}

\* C4: on a table task of any kind, tname is the path of the task's own
\* output without directory and extension, and thash the SHA-1 hex digest
\* of that name.
C4_NameOfOwnOutput ==
    /\ CallOver("tname") => pc = "returned" /\ loc.result = <<DisplayName(cur)>>
    /\ CallOver("thash") => pc = "returned" /\ loc.result = <<Sha1Hex(DisplayName(cur))>>

\* The display names of the two upstream tasks of a ColumnReplacer.
UpstreamNames(t) == <<DisplayName(tasks[t].table.items[1]), DisplayName(tasks[t].replacement)>>

\* C3: of two ColumnReplacers without outname (and with the same savedir),
\* output() gives the same path when the display names of their upstream
\* tasks are pairwise the same, and different paths when they are not.
C3_PathFromDisplayNames ==
    (CallOver("output") /\ Len(loc.args) = 2) =>
        /\ pc = "returned" /\ Len(loc.result) = 2
        /\ (UpstreamNames(loc.args[1]) = UpstreamNames(loc.args[2])) <=> (loc.result[1] = loc.result[2])

--------------------------------------------------------------------------
(* Properties of TableMerger.run.                                          *)

\* The MergeSpec entries of the running merger, and the file of entry k.
Entries == tasks[cur].tables
SourceOf(k) == fs[OutputPath(Entries[k].table)]
RowKeys(tbl) == {tbl.rows[r].idx : r \in 1..Len(tbl.rows)}

\* The columns of its file that entry k asks for: all of them, or those its
\* colnames list names.
AskedPositions(k) ==
    {i \in 1..Len(SourceOf(k).cols) :
        Entries[k].colnames = 0 \/ SourceOf(k).cols[i] \in Range(heap[Entries[k].colnames])}

\* The number of columns the entries before k ask for.
RECURSIVE WidthBefore(_)
WidthBefore(k) == IF k = 1 THEN 0 ELSE WidthBefore(k - 1) + Cardinality(AskedPositions(k - 1))

MergerDone == IsMerger /\ pc = "done"
AllOnRowKey == \A k \in 1..Len(Entries) : Entries[k].id \in {None, Absent}

\* C1: a merge of n >= 2 tables that all join on the row key writes a table
\* whose row keys are the union of the inputs' row keys, each once, whose
\* columns are the columns asked of table 1, then of table 2, ..., and in
\* which a column asked of table k is empty at every row key table k lacks.
C1_MergeKeysUnion ==
    (MergerDone /\ AllOnRowKey) =>
        LET out == fs[OutputPath(cur)]
            n == Len(Entries)
        IN /\ n >= 2
           /\ RowKeys(out) = UNION {RowKeys(SourceOf(k)) : k \in 1..n}
           /\ Len(out.rows) = Cardinality(RowKeys(out))
           /\ Len(out.cols) = WidthBefore(n + 1)
           /\ \A k \in 1..n : \A j \in 1..Cardinality(AskedPositions(k)) : \A r \in 1..Len(out.rows) :
                 out.rows[r].idx \notin RowKeys(SourceOf(k))
                    => out.rows[r].cells[WidthBefore(k) + j] = NaN

\* Three tables were merged, no two with the same row keys, one of them read
\* in part, and some row key is missing from the middle one.
C1_Witness ==
    /\ MergerDone /\ AllOnRowKey
    /\ Len(Entries) = 3
    /\ \A k, l \in 1..3 : k # l => RowKeys(SourceOf(k)) # RowKeys(SourceOf(l))
    /\ Entries[1].colnames = 0 /\ Entries[2].colnames # 0
    /\ RowKeys(fs[OutputPath(cur)]) \ RowKeys(SourceOf(2)) # {}

\* C5: a merger with fewer than two entries fails with the configuration
\* error at once: it reads no input, and never opens or creates its output.
C5_TooFewFailsBeforeIO ==
    (IsMerger /\ Len(Entries) < 2 /\ pc # "run") =>
        /\ pc = "failed" /\ loc.err = "ValueError"
        /\ io.reads = <<>> /\ io.opened = {}
        /\ ~Exists(OutputPath(cur))
        /\ heap = HeapInit

\* A merger with one entry has failed, though the entry's file exists.
C5_Witness ==
    /\ IsMerger /\ Len(Entries) = 1 /\ pc = "failed"
    /\ Exists(OutputPath(Entries[1].table))

--------------------------------------------------------------------------
(* A TableMerger whose entries name join keys and share colnames lists,    *)
(* run again after its output was deleted or its run failed.               *)

\* Table k lacks row key k.
InitMergeIds ==
    \E n \in 2..MaxTables :
    \E cn \in [1..n -> 0..2] :
    \E ids \in [1..n -> {Absent, None, "b"}] :
        /\ tasks = [i \in 1..(n+1) |->
                      IF i <= n THEN DataTable(SrcPath(i))
                      ELSE TableMerger([k \in 1..n |-> MergeSpec(k, cn[k], ids[k])], <<>>, MergerOut)]
        /\ heap = HeapInit
        /\ fs = Files(1..n, [k \in 1..n |-> Keys \ {k}])
        /\ cur = 0
        /\ pc = "idle"
        /\ loc = LocInit
        /\ io = IoInit
        /\ eng = EngInit(MaxInvocations)

NextMergeIds ==
    \/ \E t \in TaskIds : Start(t)
    \/ MergerRun
    \/ \E t \in TaskIds : ExternalDelete(t)
    \/ NewInvocation

SpecMergeIds == InitMergeIds /\ [][NextMergeIds]_vars

\* The projection entry k is to be read with: the row key, the columns its
\* colnames list named when the merger was built, and its join key.
AskedUsecols(k) ==
    IF Entries[k].colnames = 0 THEN UseAll
    ELSE UseCols({IndexCol} \cup Range(HeapInit[Entries[k].colnames])
                    \cup (IF Entries[k].id \in {None, Absent} THEN {} ELSE {Entries[k].id}))

\* C10: run leaves every colnames list as it was, and every read of a run,
\* the first or a later one, uses the projection its entry asks for.
C10_SpecsUnchanged ==
    IsMerger =>
        /\ heap = HeapInit
        /\ \A k \in 1..Len(io.reads) : io.reads[k].usecols = AskedUsecols(k)

--------------------------------------------------------------------------
(* A ColumnReplacer over two source tables.                                *)

ReplacerColnames ==
    {OneName("a"), OneName("b"), OneName("c"), ManyNames(<<"b", "a">>), ManyNames(<<"a", "b">>)}

\* One run of a ColumnReplacer: its table and its replacement are any two
\* of the sources (or the same one), each with any row keys.
InitReplace ==
    \E t, r \in 1..MaxTables :
    \E keysOf \in [{t, r} -> SUBSET Keys] :
    \E colnames \in ReplacerColnames :
    \E outname \in {<<>>, <<"r">>} :
        /\ tasks = [i \in 1..(MaxTables + 1) |->
                      IF i <= MaxTables THEN DataTable(SrcPath(i))
                      ELSE ColumnReplacer(t, r, colnames, <<"d">>, outname)]
        /\ heap = <<>>
        /\ fs = [p \in {SrcPath(t), SrcPath(r), OutputPath(MaxTables + 1)} |->
                    IF p = SrcPath(t) THEN SrcTable(t, keysOf[t])
                    ELSE IF p = SrcPath(r) THEN SrcTable(r, keysOf[r])
                    ELSE NoFile]
        /\ cur = 0
        /\ pc = "idle"
        /\ loc = LocInit
        /\ io = IoInit
        /\ eng = EngInit(1)

NextReplace == (\E t \in TaskIds : Start(t)) \/ ReplacerRun

SpecReplace == InitReplace /\ [][NextReplace]_vars

ReplacerDone == IsReplacer /\ pc = "done"
TableFile == fs[OutputPath(tasks[cur].table.items[1])]
ReplacementFile == fs[OutputPath(tasks[cur].replacement)]

\* The cell of tbl at row key k in column c.
CellAt(tbl, k, c) ==
    tbl.rows[CHOOSE r \in 1..Len(tbl.rows) : tbl.rows[r].idx = k].cells[ColPos(tbl.cols, c)]

\* C2: when both tables have the column, the output has the primary table's
\* rows and columns; the column holds the replacement's value at a row key
\* the replacement has and is empty elsewhere; the other cells are the
\* primary table's.
C2_ReplaceColumn ==
    LET c == Colname(tasks[cur].colnames)
        out == fs[OutputPath(cur)]
    IN (ReplacerDone /\ c \in Range(TableFile.cols) /\ c \in Range(ReplacementFile.cols)) =>
        /\ out.cols = TableFile.cols
        /\ [r \in 1..Len(out.rows) |-> out.rows[r].idx]
              = [r \in 1..Len(TableFile.rows) |-> TableFile.rows[r].idx]
        /\ \A r \in 1..Len(out.rows) : \A j \in 1..Len(out.cols) :
              out.rows[r].cells[j] =
                 IF out.cols[j] # c THEN TableFile.rows[r].cells[j]
                 ELSE IF out.rows[r].idx \in RowKeys(ReplacementFile)
                 THEN CellAt(ReplacementFile, out.rows[r].idx, c)
                 ELSE NaN

\* A replacement was done where the replacement table lacks a row key the
\* primary has and shares one with it, at a different row of each file.
C2_Witness ==
    /\ ReplacerDone
    /\ Colname(tasks[cur].colnames) \in Range(TableFile.cols) \cap Range(ReplacementFile.cols)
    /\ RowKeys(TableFile) \ RowKeys(ReplacementFile) # {}
    /\ \E i \in 1..Len(TableFile.rows) : \E j \in 1..Len(ReplacementFile.rows) :
          i # j /\ TableFile.rows[i].idx = ReplacementFile.rows[j].idx

--------------------------------------------------------------------------
(* A pipeline: two sources, a ColumnReplacer over them, and a TableMerger  *)
(* of the replacer's output with a source; invoked again after a failure.  *)

InitPipeline ==
    \E colnames \in ReplacerColnames :
    \E other \in 1..2 :
    \E cn \in [1..2 -> 0..2] :
    \E ids \in [1..2 -> {Absent, "b"}] :
        /\ tasks = <<DataTable(SrcPath(1)), DataTable(SrcPath(2)),
                     ColumnReplacer(1, 2, colnames, <<"d">>, <<>>),
                     TableMerger(<<MergeSpec(3, cn[1], ids[1]), MergeSpec(other, cn[2], ids[2])>>,
                                 <<"d">>, MergerOut)>>
        /\ heap = HeapInit
        /\ fs = Files(1..2, [k \in 1..2 |-> Keys \ {k}])
        /\ cur = 0
        /\ pc = "idle"
        /\ loc = LocInit
        /\ io = IoInit
        /\ eng = EngInit(MaxInvocations)

NextPipeline ==
    \/ \E t \in TaskIds : Start(t)
    \/ ReplacerRun
    \/ MergerRun
    \/ NewInvocation
    \/ \E k \in TaskIds : ExternalFix(k)

SpecPipeline == InitPipeline /\ [][NextPipeline]_vars

\* A run (not a method called on its own) of a replacer or a merger.
InRun == (IsMerger \/ IsReplacer) /\ loc.op = "" /\ pc # "idle"

\* The run has read every input table, in the order run reads them.
AllInputsRead ==
    LET inputs == IF IsMerger THEN [k \in 1..Len(Entries) |-> OutputPath(Entries[k].table)]
                  ELSE <<OutputPath(tasks[cur].table.items[1]), OutputPath(tasks[cur].replacement)>>
    IN [k \in 1..Len(io.reads) |-> io.reads[k].path] = inputs

\* The run has the table it is to write.
ResultComputed ==
    IF IsMerger THEN Len(loc.tables) = Len(Entries) /\ loc.tnum = Len(Entries) + 1
    ELSE loc.df = AssignColumn(TableFile, Colname(tasks[cur].colnames), loc.col)

\* C9: a run opens its output for writing only when it has read every input
\* and computed its result, and a run that failed has not opened its output
\* and leaves it missing; so, from the second invocation on, a task that
\* failed in the invocation before can be run again, and the tasks run are
\* among those whose output was missing when the invocation began.
C9_OutputOnlyAfterInputs ==
    /\ (InRun /\ io.opened # {}) =>
          io.opened = {OutputPath(cur)} /\ AllInputsRead /\ ResultComputed
    /\ (InRun /\ pc = "failed") => io.opened = {} /\ ~Exists(OutputPath(cur))
    /\ eng.inv >= 2 =>
          /\ eng.failedBefore \cap eng.existedAtStart = {}
          /\ eng.attempted \cap eng.existedAtStart = {}
          /\ pc \in {"done", "failed"} =>
                \A t \in eng.failedBefore \ eng.attempted : Runnable(t)

\* In the second invocation the merger, which failed in the first, is done,
\* and the replacer, whose output existed, was not run again.
C9_Witness ==
    /\ eng.inv = 2
    /\ IsMerger /\ pc = "done"
    /\ cur \in eng.failedBefore
    /\ 3 \in eng.existedAtStart /\ 3 \notin eng.attempted

====
